---- MODULE Spec2Model ----
(***************************************************************************)
(* Gawi Bawi Bo (double rock-paper-scissors) commit-reveal contract.       *)
(* State machine of contracts/ctm/src/lib.rs: the temporary storage of     *)
(* Game records keyed by session id, the Game Hub's view of the calls it   *)
(* received (per session: how many start_game and end_game calls, and the  *)
(* latest of each), and the last entry-point invocation with its result.   *)
(***************************************************************************)
EXTENDS Integers, Sequences, FiniteSets, TLC

VARIABLES storage, hub, last

vars == <<storage, hub, last>>

----------------------------------------------------------------------------
(* Bounds of the model *)

\* callers try hand values 0..MaxHand (3 and above are invalid hands)
MaxHand == 3
\* callers try choice indices 0..MaxChoice (2 and above are invalid)
MaxChoice == 2
\* number of start_game calls made for one session id in one run
MaxStarts == 2

----------------------------------------------------------------------------
(* Values *)

\* width of BytesN<32>
SALT_LEN == 32

None == <<>>
Some(v) == <<v>>
is_some(o) == o # None
unwrap(o) == o[1]

SessionIds == {1}
Players == {"alice", "bob"}
Addresses == Players \cup {"carol"}
Points == {100}
Hands == 0..MaxHand
Choices == 0..MaxChoice
\* a salt is 32 equal bytes
Salt(b) == [i \in 1..SALT_LEN |-> b]
Salts == { Salt(42), Salt(99) }

\* `x as u8`
as_u8(x) == x % 256

\* env.crypto().keccak256: a collision-free digest of the preimage bytes
keccak256(pre) == [keccak256 |-> pre]

hash_hands(left, right, salt) ==
    keccak256(<<as_u8(left), as_u8(right)>> \o salt)

hash_choice(choice, salt) ==
    keccak256(<<as_u8(choice)>> \o salt)

rps_beats(hand1, hand2) ==
    \/ (hand1 = 0 /\ hand2 = 2)
    \/ (hand1 = 1 /\ hand2 = 0)
    \/ (hand1 = 2 /\ hand2 = 1)

\* The 32-byte values callers submit as commitments: digests of two valid
\* hand pairs, of a pair of equal hands and of a pair with an invalid hand;
\* digests of the two valid choice indices and of an invalid one.
HandsHashes ==
    { hash_hands(p[1], p[2], Salt(42)) : p \in {<<0, 1>>, <<2, 1>>, <<1, 1>>, <<3, 1>>} }
ChoiceHashes == { hash_choice(c, Salt(42)) : c \in {0, 1, 2} }

----------------------------------------------------------------------------
(* Results of an entry point: Ok with the record to save and the hub calls *)
(* made, or an error / abort that leaves the ledger as it was.             *)

Ok(game, calls) == [result |-> "Ok", game |-> game, calls |-> calls]
Err(e) == [result |-> e, game |-> None, calls |-> <<>>]

new_game(player1, player2, player1_points, player2_points) ==
    [ player1 |-> player1, player2 |-> player2,
      player1_points |-> player1_points, player2_points |-> player2_points,
      phase |-> 1,
      p1_commit |-> None, p2_commit |-> None,
      p1_left |-> None, p1_right |-> None,
      p2_left |-> None, p2_right |-> None,
      p1_choice_commit |-> None, p2_choice_commit |-> None,
      p1_kept |-> None, p2_kept |-> None,
      winner |-> None ]

\* faulty variant: a player may be matched against itself
start_game_self_play(session_id, player1, player2, player1_points, player2_points) ==
    Ok(new_game(player1, player2, player1_points, player2_points),
       << [call |-> "start_game", session_id |-> session_id,
           player1 |-> player1, player2 |-> player2,
           player1_points |-> player1_points,
           player2_points |-> player2_points] >>)

start_game(session_id, player1, player2, player1_points, player2_points) ==
    IF player1 = player2 THEN Err("Panic")
    ELSE Ok(new_game(player1, player2, player1_points, player2_points),
            << [call |-> "start_game", session_id |-> session_id,
                player1 |-> player1, player2 |-> player2,
                player1_points |-> player1_points,
                player2_points |-> player2_points] >>)

\* ---- commit_hands ----

\* faulty variant: the advance skips RevealHands
advance_commit_hands_skip(game) ==
    IF is_some(game.p1_commit) /\ is_some(game.p2_commit)
    THEN [game EXCEPT !.phase = 3]
    ELSE game

\* faulty variant: the advance fires as soon as one party has committed
advance_commit_hands_either(game) ==
    IF is_some(game.p1_commit) \/ is_some(game.p2_commit)
    THEN [game EXCEPT !.phase = 2]
    ELSE game

advance_commit_hands(game) ==
    IF is_some(game.p1_commit) /\ is_some(game.p2_commit)
    THEN [game EXCEPT !.phase = 2]
    ELSE game

\* faulty variant: player 2's earlier commitment is not looked at
commit_hands_no_dup(stored, player, hands_hash) ==
    IF ~is_some(stored) THEN Err("GameNotFound")
    ELSE LET game == unwrap(stored) IN
         IF game.phase # 1 THEN Err("WrongPhase")
         ELSE IF player = game.player1 THEN
              IF is_some(game.p1_commit) THEN Err("AlreadyCommitted")
              ELSE Ok(advance_commit_hands(
                         [game EXCEPT !.p1_commit = Some(hands_hash)]), <<>>)
         ELSE IF player = game.player2 THEN
              Ok(advance_commit_hands(
                    [game EXCEPT !.p2_commit = Some(hands_hash)]), <<>>)
         ELSE Err("NotPlayer")

\* faulty variant: player 2's hash is stored in player 1's field
commit_hands_paste(stored, player, hands_hash) ==
    IF ~is_some(stored) THEN Err("GameNotFound")
    ELSE LET game == unwrap(stored) IN
         IF game.phase # 1 THEN Err("WrongPhase")
         ELSE IF player = game.player1 THEN
              IF is_some(game.p1_commit) THEN Err("AlreadyCommitted")
              ELSE Ok(advance_commit_hands(
                         [game EXCEPT !.p1_commit = Some(hands_hash)]), <<>>)
         ELSE IF player = game.player2 THEN
              IF is_some(game.p2_commit) THEN Err("AlreadyCommitted")
              ELSE Ok(advance_commit_hands(
                         [game EXCEPT !.p1_commit = Some(hands_hash)]), <<>>)
         ELSE Err("NotPlayer")

\* variant: player 1 may not commit the hash player 2 has stored
commit_hands_distinct(stored, player, hands_hash) ==
    IF ~is_some(stored) THEN Err("GameNotFound")
    ELSE LET game == unwrap(stored) IN
         IF game.phase # 1 THEN Err("WrongPhase")
         ELSE IF player = game.player1 THEN
              IF is_some(game.p1_commit) THEN Err("AlreadyCommitted")
              ELSE IF game.p2_commit = Some(hands_hash) THEN Err("HashMismatch")
              ELSE Ok(advance_commit_hands(
                         [game EXCEPT !.p1_commit = Some(hands_hash)]), <<>>)
         ELSE IF player = game.player2 THEN
              IF is_some(game.p2_commit) THEN Err("AlreadyCommitted")
              ELSE Ok(advance_commit_hands(
                         [game EXCEPT !.p2_commit = Some(hands_hash)]), <<>>)
         ELSE Err("NotPlayer")

commit_hands(stored, player, hands_hash) ==
    IF ~is_some(stored) THEN Err("GameNotFound")
    ELSE LET game == unwrap(stored) IN
         IF game.phase # 1 THEN Err("WrongPhase")
         ELSE IF player = game.player1 THEN
              IF is_some(game.p1_commit) THEN Err("AlreadyCommitted")
              ELSE Ok(advance_commit_hands(
                         [game EXCEPT !.p1_commit = Some(hands_hash)]), <<>>)
         ELSE IF player = game.player2 THEN
              IF is_some(game.p2_commit) THEN Err("AlreadyCommitted")
              ELSE Ok(advance_commit_hands(
                         [game EXCEPT !.p2_commit = Some(hands_hash)]), <<>>)
         ELSE Err("NotPlayer")

\* ---- reveal_hands ----

\* faulty variant: the advance fires as soon as one party has revealed
advance_reveal_hands_either(game) ==
    IF is_some(game.p1_left) \/ is_some(game.p2_left)
    THEN [game EXCEPT !.phase = 3]
    ELSE game

advance_reveal_hands(game) ==
    IF is_some(game.p1_left) /\ is_some(game.p2_left)
    THEN [game EXCEPT !.phase = 3]
    ELSE game

\* faulty variant: equal hands are not rejected
check_hands_no_differ(left_hand, right_hand) ==
    IF left_hand > 2 \/ right_hand > 2 THEN "InvalidHand"
    ELSE "Ok"

\* faulty variant: the range of the hands is not checked
check_hands_no_range(left_hand, right_hand) ==
    IF left_hand = right_hand THEN "HandsMustDiffer"
    ELSE "Ok"

\* the checks on the revealed values made before the caller is identified
check_hands(left_hand, right_hand) ==
    IF left_hand > 2 \/ right_hand > 2 THEN "InvalidHand"
    ELSE IF left_hand = right_hand THEN "HandsMustDiffer"
    ELSE "Ok"

\* faulty variant: the comparison with the stored commitment is dropped
hash_differs_never(computed, commit) == FALSE

\* faulty variant: only the value bytes of the digests' preimages are compared, the
\* salt is ignored
hash_differs_ignoring_salt(computed, commit) ==
    LET n == Len(computed.keccak256) - SALT_LEN IN
    \/ Len(commit.keccak256) # Len(computed.keccak256)
    \/ SubSeq(computed.keccak256, 1, n) # SubSeq(commit.keccak256, 1, n)

\* `computed != commit`
hash_differs(computed, commit) == computed # commit

\* faulty variant: only the phases before RevealHands are refused
reveal_hands_late(stored, player, left_hand, right_hand, salt) ==
    IF ~is_some(stored) THEN Err("GameNotFound")
    ELSE LET game == unwrap(stored)
             computed == hash_hands(left_hand, right_hand, salt) IN
         IF game.phase < 2 THEN Err("WrongPhase")
         ELSE IF check_hands(left_hand, right_hand) # "Ok"
              THEN Err(check_hands(left_hand, right_hand))
         ELSE IF player = game.player1 THEN
              IF is_some(game.p1_left) THEN Err("AlreadyCommitted")
              ELSE IF ~is_some(game.p1_commit) THEN Err("Panic")
              ELSE IF hash_differs(computed, unwrap(game.p1_commit))
                   THEN Err("HashMismatch")
              ELSE Ok(advance_reveal_hands(
                         [game EXCEPT !.p1_left = Some(left_hand),
                                      !.p1_right = Some(right_hand)]), <<>>)
         ELSE IF player = game.player2 THEN
              IF is_some(game.p2_left) THEN Err("AlreadyCommitted")
              ELSE IF ~is_some(game.p2_commit) THEN Err("Panic")
              ELSE IF hash_differs(computed, unwrap(game.p2_commit))
                   THEN Err("HashMismatch")
              ELSE Ok(advance_reveal_hands(
                         [game EXCEPT !.p2_left = Some(left_hand),
                                      !.p2_right = Some(right_hand)]), <<>>)
         ELSE Err("NotPlayer")

\* faulty variant: the two revealed hands are stored in each other's field
reveal_hands_crossed(stored, player, left_hand, right_hand, salt) ==
    IF ~is_some(stored) THEN Err("GameNotFound")
    ELSE LET game == unwrap(stored)
             computed == hash_hands(left_hand, right_hand, salt) IN
         IF game.phase # 2 THEN Err("WrongPhase")
         ELSE IF check_hands(left_hand, right_hand) # "Ok"
              THEN Err(check_hands(left_hand, right_hand))
         ELSE IF player = game.player1 THEN
              IF is_some(game.p1_left) THEN Err("AlreadyCommitted")
              ELSE IF ~is_some(game.p1_commit) THEN Err("Panic")
              ELSE IF hash_differs(computed, unwrap(game.p1_commit))
                   THEN Err("HashMismatch")
              ELSE Ok(advance_reveal_hands(
                         [game EXCEPT !.p1_left = Some(right_hand),
                                      !.p1_right = Some(left_hand)]), <<>>)
         ELSE IF player = game.player2 THEN
              IF is_some(game.p2_left) THEN Err("AlreadyCommitted")
              ELSE IF ~is_some(game.p2_commit) THEN Err("Panic")
              ELSE IF hash_differs(computed, unwrap(game.p2_commit))
                   THEN Err("HashMismatch")
              ELSE Ok(advance_reveal_hands(
                         [game EXCEPT !.p2_left = Some(right_hand),
                                      !.p2_right = Some(left_hand)]), <<>>)
         ELSE Err("NotPlayer")

reveal_hands(stored, player, left_hand, right_hand, salt) ==
    IF ~is_some(stored) THEN Err("GameNotFound")
    ELSE LET game == unwrap(stored)
             computed == hash_hands(left_hand, right_hand, salt) IN
         IF game.phase # 2 THEN Err("WrongPhase")
         ELSE IF check_hands(left_hand, right_hand) # "Ok"
              THEN Err(check_hands(left_hand, right_hand))
         ELSE IF player = game.player1 THEN
              IF is_some(game.p1_left) THEN Err("AlreadyCommitted")
              ELSE IF ~is_some(game.p1_commit) THEN Err("Panic")
              ELSE IF hash_differs(computed, unwrap(game.p1_commit))
                   THEN Err("HashMismatch")
              ELSE Ok(advance_reveal_hands(
                         [game EXCEPT !.p1_left = Some(left_hand),
                                      !.p1_right = Some(right_hand)]), <<>>)
         ELSE IF player = game.player2 THEN
              IF is_some(game.p2_left) THEN Err("AlreadyCommitted")
              ELSE IF ~is_some(game.p2_commit) THEN Err("Panic")
              ELSE IF hash_differs(computed, unwrap(game.p2_commit))
                   THEN Err("HashMismatch")
              ELSE Ok(advance_reveal_hands(
                         [game EXCEPT !.p2_left = Some(left_hand),
                                      !.p2_right = Some(right_hand)]), <<>>)
         ELSE Err("NotPlayer")

\* ---- commit_choice ----

\* faulty variant: the advance to RevealChoice is missing
advance_commit_choice_never(game) == game

advance_commit_choice(game) ==
    IF is_some(game.p1_choice_commit) /\ is_some(game.p2_choice_commit)
    THEN [game EXCEPT !.phase = 4]
    ELSE game

\* faulty variant: a caller that is not player 1 is taken for player 2
commit_choice_else_player2(stored, player, choice_hash) ==
    IF ~is_some(stored) THEN Err("GameNotFound")
    ELSE LET game == unwrap(stored) IN
         IF game.phase # 3 THEN Err("WrongPhase")
         ELSE IF player = game.player1 THEN
              IF is_some(game.p1_choice_commit) THEN Err("AlreadyCommitted")
              ELSE Ok(advance_commit_choice(
                         [game EXCEPT !.p1_choice_commit = Some(choice_hash)]), <<>>)
         ELSE IF is_some(game.p2_choice_commit) THEN Err("AlreadyCommitted")
              ELSE Ok(advance_commit_choice(
                         [game EXCEPT !.p2_choice_commit = Some(choice_hash)]), <<>>)

\* faulty variant: player 1 may replace its choice commitment
commit_choice_overwrite(stored, player, choice_hash) ==
    IF ~is_some(stored) THEN Err("GameNotFound")
    ELSE LET game == unwrap(stored) IN
         IF game.phase # 3 THEN Err("WrongPhase")
         ELSE IF player = game.player1 THEN
              Ok(advance_commit_choice(
                    [game EXCEPT !.p1_choice_commit = Some(choice_hash)]), <<>>)
         ELSE IF player = game.player2 THEN
              IF is_some(game.p2_choice_commit) THEN Err("AlreadyCommitted")
              ELSE Ok(advance_commit_choice(
                         [game EXCEPT !.p2_choice_commit = Some(choice_hash)]), <<>>)
         ELSE Err("NotPlayer")

commit_choice(stored, player, choice_hash) ==
    IF ~is_some(stored) THEN Err("GameNotFound")
    ELSE LET game == unwrap(stored) IN
         IF game.phase # 3 THEN Err("WrongPhase")
         ELSE IF player = game.player1 THEN
              IF is_some(game.p1_choice_commit) THEN Err("AlreadyCommitted")
              ELSE Ok(advance_commit_choice(
                         [game EXCEPT !.p1_choice_commit = Some(choice_hash)]), <<>>)
         ELSE IF player = game.player2 THEN
              IF is_some(game.p2_choice_commit) THEN Err("AlreadyCommitted")
              ELSE Ok(advance_commit_choice(
                         [game EXCEPT !.p2_choice_commit = Some(choice_hash)]), <<>>)
         ELSE Err("NotPlayer")

\* ---- reveal_choice ----

\* faulty variant: the two indices are swapped
kept_hand_swapped(choice_index, left, right) ==
    IF choice_index = 0 THEN right ELSE left

\* `if choice_index == 0 { left.unwrap() } else { right.unwrap() }`
kept_hand(choice_index, left, right) ==
    IF choice_index = 0 THEN left ELSE right

\* faulty variant: a draw is not given to player 1
player1_won_no_tie(h1, h2) == rps_beats(h1, h2)

\* `rps_beats(h1, h2) || h1 == h2`
player1_won(h1, h2) == rps_beats(h1, h2) \/ h1 = h2

\* faulty variant: the resolution block forgets to move the phase to Complete
resolve_no_phase(session_id, game) ==
    IF is_some(game.p1_kept) /\ is_some(game.p2_kept)
    THEN LET won == player1_won(unwrap(game.p1_kept), unwrap(game.p2_kept)) IN
         Ok([game EXCEPT !.winner = Some(IF won THEN game.player1
                                                ELSE game.player2)],
            << [call |-> "end_game", session_id |-> session_id,
                player1_won |-> won] >>)
    ELSE Ok(game, <<>>)

\* the resolution block run at the end of every successful reveal_choice
resolve(session_id, game) ==
    IF is_some(game.p1_kept) /\ is_some(game.p2_kept)
    THEN LET won == player1_won(unwrap(game.p1_kept), unwrap(game.p2_kept)) IN
         Ok([game EXCEPT !.winner = Some(IF won THEN game.player1
                                                ELSE game.player2),
                         !.phase = 5],
            << [call |-> "end_game", session_id |-> session_id,
                player1_won |-> won] >>)
    ELSE Ok(game, <<>>)

\* faulty variant: a draw goes to the player whose reveal completes the
\* session
reveal_choice_caller_tie(stored, session_id, player, choice_index, salt) ==
    LET settle(game) ==
          IF is_some(game.p1_kept) /\ is_some(game.p2_kept)
          THEN LET h1 == unwrap(game.p1_kept)
                   h2 == unwrap(game.p2_kept)
                   won == rps_beats(h1, h2) \/ (h1 = h2 /\ player = game.player1) IN
               Ok([game EXCEPT !.winner = Some(IF won THEN game.player1
                                                      ELSE game.player2),
                               !.phase = 5],
                  << [call |-> "end_game", session_id |-> session_id,
                      player1_won |-> won] >>)
          ELSE Ok(game, <<>>) IN
    IF ~is_some(stored) THEN Err("GameNotFound")
    ELSE LET game == unwrap(stored)
             computed == hash_choice(choice_index, salt) IN
         IF game.phase # 4 THEN Err("WrongPhase")
         ELSE IF choice_index > 1 THEN Err("InvalidChoice")
         ELSE IF player = game.player1 THEN
              IF is_some(game.p1_kept) THEN Err("AlreadyCommitted")
              ELSE IF ~is_some(game.p1_choice_commit) THEN Err("Panic")
              ELSE IF hash_differs(computed, unwrap(game.p1_choice_commit))
                   THEN Err("HashMismatch")
              ELSE IF ~is_some(kept_hand(choice_index, game.p1_left, game.p1_right))
                   THEN Err("Panic")
              ELSE settle([game EXCEPT !.p1_kept =
                              kept_hand(choice_index, game.p1_left, game.p1_right)])
         ELSE IF player = game.player2 THEN
              IF is_some(game.p2_kept) THEN Err("AlreadyCommitted")
              ELSE IF ~is_some(game.p2_choice_commit) THEN Err("Panic")
              ELSE IF hash_differs(computed, unwrap(game.p2_choice_commit))
                   THEN Err("HashMismatch")
              ELSE IF ~is_some(kept_hand(choice_index, game.p2_left, game.p2_right))
                   THEN Err("Panic")
              ELSE settle([game EXCEPT !.p2_kept =
                              kept_hand(choice_index, game.p2_left, game.p2_right)])
         ELSE Err("NotPlayer")

reveal_choice(stored, session_id, player, choice_index, salt) ==
    IF ~is_some(stored) THEN Err("GameNotFound")
    ELSE LET game == unwrap(stored)
             computed == hash_choice(choice_index, salt) IN
         IF game.phase # 4 THEN Err("WrongPhase")
         ELSE IF choice_index > 1 THEN Err("InvalidChoice")
         ELSE IF player = game.player1 THEN
              IF is_some(game.p1_kept) THEN Err("AlreadyCommitted")
              ELSE IF ~is_some(game.p1_choice_commit) THEN Err("Panic")
              ELSE IF hash_differs(computed, unwrap(game.p1_choice_commit))
                   THEN Err("HashMismatch")
              ELSE IF ~is_some(kept_hand(choice_index, game.p1_left, game.p1_right))
                   THEN Err("Panic")
              ELSE resolve(session_id,
                      [game EXCEPT !.p1_kept =
                          kept_hand(choice_index, game.p1_left, game.p1_right)])
         ELSE IF player = game.player2 THEN
              IF is_some(game.p2_kept) THEN Err("AlreadyCommitted")
              ELSE IF ~is_some(game.p2_choice_commit) THEN Err("Panic")
              ELSE IF hash_differs(computed, unwrap(game.p2_choice_commit))
                   THEN Err("HashMismatch")
              ELSE IF ~is_some(kept_hand(choice_index, game.p2_left, game.p2_right))
                   THEN Err("Panic")
              ELSE resolve(session_id,
                      [game EXCEPT !.p2_kept =
                          kept_hand(choice_index, game.p2_left, game.p2_right)])
         ELSE Err("NotPlayer")

\* ---- get_game ----

\* faulty variant: an absent record is answered with a fresh default record
get_game_default(stored) ==
    IF is_some(stored) THEN Ok(unwrap(stored), <<>>)
    ELSE Ok(new_game("alice", "bob", 0, 0), <<>>)

get_game(stored) ==
    IF is_some(stored) THEN Ok(unwrap(stored), <<>>) ELSE Err("GameNotFound")

----------------------------------------------------------------------------
(* The ledger applies an invocation atomically: the record is saved and    *)
(* the hub calls take effect only when the entry point returns Ok.         *)

\* what the Game Hub has seen for a session once it receives `calls`
hub_receive(h, calls) ==
    IF calls = <<>> THEN h
    ELSE LET c == calls[1] IN
         IF c.call = "start_game"
         THEN [h EXCEPT !.start_games = @ + 1, !.registered = Some(c)]
         ELSE [h EXCEPT !.end_games = @ + 1, !.player1_won = Some(c.player1_won)]

\* faulty variant: the record slot is written whatever the entry point
\* returns, so a failed call leaves the slot without the record
Invoke_write_always(op, session_id, r) ==
    /\ storage' = [storage EXCEPT ![session_id] =
                      IF r.result = "Ok" THEN Some(r.game) ELSE r.game]
    /\ hub' = IF r.result = "Ok"
              THEN [hub EXCEPT ![session_id] = hub_receive(@, r.calls)]
              ELSE hub
    /\ last' = [op |-> op, session_id |-> session_id, result |-> r.result]

\* faulty variant: the record is saved under every session key
Invoke_every_key(op, session_id, r) ==
    /\ storage' = IF r.result = "Ok"
                  THEN [s \in DOMAIN storage |-> Some(r.game)]
                  ELSE storage
    /\ hub' = IF r.result = "Ok"
              THEN [hub EXCEPT ![session_id] = hub_receive(@, r.calls)]
              ELSE hub
    /\ last' = [op |-> op, session_id |-> session_id, result |-> r.result]

\* save_game plus the hub calls of the invocation, and the caller's view of
\* its result
Invoke(op, session_id, r) ==
    /\ storage' = IF r.result = "Ok"
                  THEN [storage EXCEPT ![session_id] = Some(r.game)]
                  ELSE storage
    /\ hub' = IF r.result = "Ok"
              THEN [hub EXCEPT ![session_id] = hub_receive(@, r.calls)]
              ELSE hub
    /\ last' = [op |-> op, session_id |-> session_id, result |-> r.result]

Init ==
    /\ storage = [s \in SessionIds |-> None]
    /\ hub = [s \in SessionIds |->
                [start_games |-> 0, end_games |-> 0,
                 registered |-> None, player1_won |-> None]]
    /\ last = [op |-> "__constructor", session_id |-> 0, result |-> "Ok"]

StartGame(s, p1, p2, pts1, pts2) ==
    /\ hub[s].start_games < MaxStarts
    /\ LET r == start_game(s, p1, p2, pts1, pts2) IN
       Invoke("start_game", s, r)

CommitHands(s, player, hands_hash) ==
    /\ s \in DOMAIN storage
    /\ LET r == commit_hands(storage[s], player, hands_hash) IN
       Invoke("commit_hands", s, r)

RevealHands(s, player, left_hand, right_hand, salt) ==
    /\ s \in DOMAIN storage
    /\ LET r == reveal_hands(storage[s], player, left_hand, right_hand, salt) IN
       Invoke("reveal_hands", s, r)

CommitChoice(s, player, choice_hash) ==
    /\ s \in DOMAIN storage
    /\ LET r == commit_choice(storage[s], player, choice_hash) IN
       Invoke("commit_choice", s, r)

RevealChoice(s, player, choice_index, salt) ==
    /\ s \in DOMAIN storage
    /\ LET r == reveal_choice(storage[s], s, player, choice_index, salt) IN
       Invoke("reveal_choice", s, r)

\* get_game returns the record and writes nothing
GetGame(s) ==
    /\ UNCHANGED <<storage, hub>>
    /\ last' = [op |-> "get_game", session_id |-> s,
                result |-> get_game(storage[s]).result]

\* An invocation of a player entry point that the named player did not
\* authorize: require_auth, the first statement of each, traps and the
\* host discards the invocation.
AuthFailure(op, s, player) ==
    /\ UNCHANGED <<storage, hub>>
    /\ last' = [op |-> op, session_id |-> s, result |-> "AuthFailed"]

PlayerOps == {"commit_hands", "reveal_hands", "commit_choice", "reveal_choice"}

Next ==
    \/ \E s \in SessionIds, p1 \in Players, p2 \in Players,
          pts1 \in Points, pts2 \in Points :
          StartGame(s, p1, p2, pts1, pts2)
    \/ \E s \in SessionIds, player \in Addresses, h \in HandsHashes :
          CommitHands(s, player, h)
    \/ \E s \in SessionIds, player \in Addresses, l \in Hands, r \in Hands,
          salt \in Salts :
          RevealHands(s, player, l, r, salt)
    \/ \E s \in SessionIds, player \in Addresses, h \in ChoiceHashes :
          CommitChoice(s, player, h)
    \/ \E s \in SessionIds, player \in Addresses, c \in Choices, salt \in Salts :
          RevealChoice(s, player, c, salt)
    \/ \E s \in SessionIds : GetGame(s)
    \/ \E op \in PlayerOps, s \in SessionIds, player \in Addresses :
          AuthFailure(op, s, player)

Spec == Init /\ [][Next]_vars

----------------------------------------------------------------------------
(* Properties *)

Live(s) == is_some(storage[s])
G(s) == unwrap(storage[s])

\* C1: across any call of commit_hands, reveal_hands, commit_choice or
\* reveal_choice (accepted or rejected, by any caller) an existing session
\* stays stored, its phase never decreases and it rises by at most one.
C1_PhaseMonotone ==
    [][ last'.op \in PlayerOps =>
          \A s \in SessionIds : Live(s) =>
             /\ is_some(storage'[s])
             /\ unwrap(storage'[s]).phase \in {G(s).phase, G(s).phase + 1}
             /\ unwrap(storage'[s]).phase \in 1..5 ]_vars

\* C1 witness: a reveal_choice call has just raised the phase to Complete,
\* the last of the four single steps.
C1_Witness ==
    \E s \in SessionIds :
       /\ Live(s) /\ G(s).phase = 5
       /\ last.op = "reveal_choice" /\ last.result = "Ok"

\* C2: the phase is exactly determined by the data both parties supplied:
\* phase >= 2 iff both hands commitments are set, phase >= 3 iff both
\* parties' hands are set, phase >= 4 iff both choice commitments are set,
\* phase = 5 iff both kept values are set.
C2_PhaseMatchesData ==
    \A s \in SessionIds : Live(s) =>
       LET g == G(s) IN
       /\ g.phase \in 1..5
       /\ (g.phase >= 2) <=> (is_some(g.p1_commit) /\ is_some(g.p2_commit))
       /\ (g.phase >= 3) <=> ( /\ is_some(g.p1_left) /\ is_some(g.p1_right)
                               /\ is_some(g.p2_left) /\ is_some(g.p2_right) )
       /\ (g.phase >= 4) <=> ( /\ is_some(g.p1_choice_commit)
                               /\ is_some(g.p2_choice_commit) )
       /\ (g.phase = 5) <=> (is_some(g.p1_kept) /\ is_some(g.p2_kept))

\* C2 witness: one party has revealed its hands and the other has not, and
\* the session is still waiting in RevealHands.
C2_Witness ==
    \E s \in SessionIds :
       /\ Live(s) /\ G(s).phase = 2
       /\ is_some(G(s).p2_left) /\ ~is_some(G(s).p1_left)
       /\ last.op = "reveal_hands" /\ last.result = "Ok"

\* C3: winner is set if and only if the phase is Complete, and a set winner
\* is one of the session's two players.
C3_WinnerIffComplete ==
    \A s \in SessionIds : Live(s) =>
       /\ is_some(G(s).winner) <=> (G(s).phase = 5)
       /\ is_some(G(s).winner) =>
             unwrap(G(s).winner) \in {G(s).player1, G(s).player2}

\* C3 witness: a completed session whose winner is player 2.
C3_Witness ==
    \E s \in SessionIds :
       /\ Live(s) /\ G(s).phase = 5
       /\ G(s).winner = Some(G(s).player2)

CommitFields == {"p1_commit", "p2_commit", "p1_choice_commit", "p2_choice_commit"}

\* C4: every commit field is write-once: across any call of the four
\* per-phase entry points a commit field that holds a hash keeps that hash.
C4_CommitWriteOnce ==
    [][ last'.op \in PlayerOps =>
          \A s \in SessionIds, f \in CommitFields :
             (Live(s) /\ is_some(G(s)[f])) =>
                (is_some(storage'[s]) /\ unwrap(storage'[s])[f] = G(s)[f]) ]_vars

\* C4 witness: a second commit_choice by a party whose choice commitment is
\* stored has just been rejected.
C4_Witness ==
    \E s \in SessionIds :
       /\ Live(s) /\ G(s).phase = 3
       /\ is_some(G(s).p1_choice_commit)
       /\ last.op = "commit_choice" /\ last.result = "AlreadyCommitted"

\* the stored hands are the first two bytes of the preimage of `commit`
OpensHands(commit, left, right) ==
    /\ is_some(commit) /\ is_some(left) /\ is_some(right)
    /\ \E salt \in Salts :
          hash_hands(unwrap(left), unwrap(right), salt) = unwrap(commit)
    /\ <<unwrap(left), unwrap(right)>> = SubSeq(unwrap(commit).keccak256, 1, 2)

\* the kept value is the hand selected by the index byte of the preimage
\* of `commit`
OpensChoice(commit, kept, left, right) ==
    /\ is_some(commit) /\ is_some(kept)
    /\ \E i \in {0, 1}, salt \in Salts :
          /\ hash_choice(i, salt) = unwrap(commit)
          /\ kept = (IF i = 0 THEN left ELSE right)

\* C5: reveal binding: stored hands open the party's stored hands
\* commitment, and a stored kept value opens the party's stored choice
\* commitment (some index in {0,1} and salt hash to it); the hash being
\* collision-free, the stored pair and the kept hand are the ones fixed by
\* the commitment's preimage.
C5_RevealBinding ==
    \A s \in SessionIds : Live(s) =>
       LET g == G(s) IN
       /\ (is_some(g.p1_left) \/ is_some(g.p1_right)) =>
             OpensHands(g.p1_commit, g.p1_left, g.p1_right)
       /\ (is_some(g.p2_left) \/ is_some(g.p2_right)) =>
             OpensHands(g.p2_commit, g.p2_left, g.p2_right)
       /\ is_some(g.p1_kept) =>
             OpensChoice(g.p1_choice_commit, g.p1_kept, g.p1_left, g.p1_right)
       /\ is_some(g.p2_kept) =>
             OpensChoice(g.p2_choice_commit, g.p2_kept, g.p2_left, g.p2_right)

\* C5 witness: player 1 has revealed hands and a kept value after player 2
\* revealed its own.
C5_Witness ==
    \E s \in SessionIds :
       /\ Live(s) /\ G(s).phase = 5
       /\ G(s).p1_commit # G(s).p2_commit
       /\ G(s).p1_choice_commit # G(s).p2_choice_commit
       /\ last.op = "reveal_choice" /\ last.result = "Ok"

IsPlayer(g, player) == player \in {g.player1, g.player2}

\* the fields of `player` in record g
HandsCommitOf(g, player) == IF player = g.player1 THEN g.p1_commit ELSE g.p2_commit
LeftOf(g, player) == IF player = g.player1 THEN g.p1_left ELSE g.p2_left
ChoiceCommitOf(g, player) ==
    IF player = g.player1 THEN g.p1_choice_commit ELSE g.p2_choice_commit
KeptOf(g, player) == IF player = g.player1 THEN g.p1_kept ELSE g.p2_kept

\* a rejected call of `ops` with result in `results` leaves storage and hub
\* as they were
Rejected(ops, results) ==
    (last'.op \in ops /\ last'.result \in results) =>
       (storage' = storage /\ hub' = hub)

\* C6 as stated: in RevealHands every reveal_hands by a player whose
\* (left, right, salt) does not hash to that player's stored commitment
\* fails with HashMismatch; likewise reveal_choice in RevealChoice.
C6_AlwaysHashMismatch ==
    \A s \in SessionIds : Live(s) =>
       \A player \in Addresses : IsPlayer(G(s), player) =>
          /\ G(s).phase = 2 =>
                \A l \in Hands, r \in Hands, salt \in Salts :
                   hash_hands(l, r, salt) # unwrap(HandsCommitOf(G(s), player)) =>
                      reveal_hands(storage[s], player, l, r, salt).result
                         = "HashMismatch"
          /\ G(s).phase = 4 =>
                \A c \in Choices, salt \in Salts :
                   hash_choice(c, salt) # unwrap(ChoiceCommitOf(G(s), player)) =>
                      reveal_choice(storage[s], s, player, c, salt).result
                         = "HashMismatch"

\* C6 amended: such a call always fails and leaves the record unchanged;
\* the error is HashMismatch when the values pass validation (both hands in
\* 0..2 and different; index 0 or 1) and the player has not revealed yet,
\* and otherwise the error of the earlier check (InvalidHand,
\* HandsMustDiffer, InvalidChoice, AlreadyCommitted).
C6_MismatchRejected ==
    /\ [](\A s \in SessionIds : Live(s) =>
          \A player \in Addresses : IsPlayer(G(s), player) =>
             /\ G(s).phase = 2 =>
                   \A l \in Hands, r \in Hands, salt \in Salts :
                      hash_hands(l, r, salt) # unwrap(HandsCommitOf(G(s), player)) =>
                         LET res == reveal_hands(storage[s], player, l, r, salt).result IN
                         /\ res \in {"InvalidHand", "HandsMustDiffer",
                                     "AlreadyCommitted", "HashMismatch"}
                         /\ (l <= 2 /\ r <= 2 /\ l # r
                               /\ ~is_some(LeftOf(G(s), player)))
                               => res = "HashMismatch"
             /\ G(s).phase = 4 =>
                   \A c \in Choices, salt \in Salts :
                      hash_choice(c, salt) # unwrap(ChoiceCommitOf(G(s), player)) =>
                         LET res == reveal_choice(storage[s], s, player, c, salt).result IN
                         /\ res \in {"InvalidChoice", "AlreadyCommitted",
                                     "HashMismatch"}
                         /\ (c <= 1 /\ ~is_some(KeptOf(G(s), player)))
                               => res = "HashMismatch")
    /\ [][Rejected({"reveal_hands", "reveal_choice"},
                   {"InvalidHand", "HandsMustDiffer", "InvalidChoice",
                    "AlreadyCommitted", "HashMismatch"})]_vars

\* C6 witness: a reveal_hands call has just failed with HashMismatch in
\* RevealHands, and nobody's hands are stored.
C6_Witness ==
    \E s \in SessionIds :
       /\ Live(s) /\ G(s).phase = 2
       /\ ~is_some(G(s).p1_left) /\ ~is_some(G(s).p2_left)
       /\ last.op = "reveal_hands" /\ last.result = "HashMismatch"

\* C7: in RevealHands, reveal_hands with left = right in {0,1,2} fails with
\* HandsMustDiffer whoever calls it and whatever the stored commitments
\* are, and leaves the record unchanged; no record ever holds two equal
\* hands for a party.
C7_EqualHandsRejected ==
    /\ [](\A s \in SessionIds : Live(s) =>
          /\ G(s).phase = 2 =>
                \A player \in Addresses, v \in 0..2, salt \in Salts :
                   reveal_hands(storage[s], player, v, v, salt).result
                      = "HandsMustDiffer"
          /\ is_some(G(s).p1_left) => G(s).p1_left # G(s).p1_right
          /\ is_some(G(s).p2_left) => G(s).p2_left # G(s).p2_right)
    /\ [][Rejected({"reveal_hands"}, {"HandsMustDiffer"})]_vars

\* C7 witness: a reveal_hands call has just failed with HandsMustDiffer in a
\* session where player 1's stored commitment is the digest of two equal
\* hands.
C7_Witness ==
    \E s \in SessionIds :
       /\ Live(s) /\ G(s).phase = 2
       /\ G(s).p1_commit = Some(hash_hands(1, 1, Salt(42)))
       /\ last.op = "reveal_hands" /\ last.result = "HandsMustDiffer"

\* the party `player` has made its submission for the current phase and
\* the other party has not
SubmittedAlone(g, player) ==
    LET other == IF player = g.player1 THEN g.player2 ELSE g.player1 IN
    CASE g.phase = 1 -> is_some(HandsCommitOf(g, player))
                        /\ ~is_some(HandsCommitOf(g, other))
      [] g.phase = 2 -> is_some(LeftOf(g, player)) /\ ~is_some(LeftOf(g, other))
      [] g.phase = 3 -> is_some(ChoiceCommitOf(g, player))
                        /\ ~is_some(ChoiceCommitOf(g, other))
      [] g.phase = 4 -> is_some(KeptOf(g, player)) /\ ~is_some(KeptOf(g, other))
      [] OTHER -> FALSE

\* C8 as stated: a second call of the phase's operation by a party that
\* has submitted alone fails with AlreadyCommitted whatever it carries.
C8_AlwaysAlreadyCommitted ==
    \A s \in SessionIds : Live(s) =>
       \A player \in Addresses :
          (IsPlayer(G(s), player) /\ SubmittedAlone(G(s), player)) =>
             /\ G(s).phase = 1 =>
                   \A h \in HandsHashes :
                      commit_hands(storage[s], player, h).result = "AlreadyCommitted"
             /\ G(s).phase = 2 =>
                   \A l \in Hands, r \in Hands, salt \in Salts :
                      reveal_hands(storage[s], player, l, r, salt).result
                         = "AlreadyCommitted"
             /\ G(s).phase = 3 =>
                   \A h \in ChoiceHashes :
                      commit_choice(storage[s], player, h).result = "AlreadyCommitted"
             /\ G(s).phase = 4 =>
                   \A c \in Choices, salt \in Salts :
                      reveal_choice(storage[s], s, player, c, salt).result
                         = "AlreadyCommitted"

\* C8 amended: such a second call always fails and leaves the record (the
\* first submission and the phase included) unchanged; the error is
\* AlreadyCommitted for commit_hands and commit_choice whatever the hash,
\* and for reveal_hands and reveal_choice when the values pass validation
\* (both hands in 0..2 and different; index 0 or 1), otherwise InvalidHand,
\* HandsMustDiffer or InvalidChoice.
C8_DoubleSubmissionRejected ==
    /\ [](\A s \in SessionIds : Live(s) =>
          \A player \in Addresses :
             (IsPlayer(G(s), player) /\ SubmittedAlone(G(s), player)) =>
                /\ G(s).phase = 1 =>
                      \A h \in HandsHashes :
                         commit_hands(storage[s], player, h).result
                            = "AlreadyCommitted"
                /\ G(s).phase = 2 =>
                      \A l \in Hands, r \in Hands, salt \in Salts :
                         reveal_hands(storage[s], player, l, r, salt).result =
                            (IF l > 2 \/ r > 2 THEN "InvalidHand"
                             ELSE IF l = r THEN "HandsMustDiffer"
                             ELSE "AlreadyCommitted")
                /\ G(s).phase = 3 =>
                      \A h \in ChoiceHashes :
                         commit_choice(storage[s], player, h).result
                            = "AlreadyCommitted"
                /\ G(s).phase = 4 =>
                      \A c \in Choices, salt \in Salts :
                         reveal_choice(storage[s], s, player, c, salt).result =
                            (IF c > 1 THEN "InvalidChoice" ELSE "AlreadyCommitted"))
    /\ [][Rejected(PlayerOps, {"AlreadyCommitted", "InvalidHand",
                               "HandsMustDiffer", "InvalidChoice"})]_vars

\* C8 witness: in RevealChoice one party's kept value is stored, the
\* other's is not, and a reveal_choice call has just failed with
\* AlreadyCommitted.
C8_Witness ==
    \E s \in SessionIds :
       /\ Live(s) /\ G(s).phase = 4
       /\ is_some(G(s).p1_kept) /\ ~is_some(G(s).p2_kept)
       /\ last.op = "reveal_choice" /\ last.result = "AlreadyCommitted"

\* the dominance table of the three hand values
Beats == {<<0, 2>>, <<1, 0>>, <<2, 1>>}

\* C9: in every Complete record the winner is player 1 iff player 1's kept
\* hand beats player 2's (0 beats 2, 1 beats 0, 2 beats 1) or the two are
\* equal, and player 2 otherwise; the resolver agrees with the table on
\* all nine pairs.
C9_OutcomeResolution ==
    /\ \A s \in SessionIds : (Live(s) /\ G(s).phase = 5) =>
          LET k1 == unwrap(G(s).p1_kept)
              k2 == unwrap(G(s).p2_kept) IN
          /\ k1 \in 0..2 /\ k2 \in 0..2
          /\ G(s).winner = Some(IF <<k1, k2>> \in Beats \/ k1 = k2
                                THEN G(s).player1 ELSE G(s).player2)
    /\ \A a \in 0..2, b \in 0..2 :
          player1_won(a, b) <=> (<<a, b>> \in Beats \/ a = b)

\* C9 witness: a session completed on a draw (Paper against Paper), won by
\* player 1.
C9_Witness ==
    \E s \in SessionIds :
       /\ Live(s) /\ G(s).phase = 5
       /\ G(s).p1_kept = Some(1) /\ G(s).p2_kept = Some(1)
       /\ G(s).winner = Some(G(s).player1)

\* C10: a successful reveal_choice(choice_index) by a party stores as that
\* party's kept value its own left hand for index 0 and its own right hand
\* for index 1, and leaves the other party's kept value alone; in every
\* record a stored kept value is that party's stored left or right hand.
C10_KeptSelection ==
    \A s \in SessionIds : Live(s) =>
       LET g == G(s) IN
       /\ is_some(g.p1_kept) => g.p1_kept \in {g.p1_left, g.p1_right}
       /\ is_some(g.p2_kept) => g.p2_kept \in {g.p2_left, g.p2_right}
       /\ \A player \in Addresses, c \in Choices, salt \in Salts :
             LET r == reveal_choice(storage[s], s, player, c, salt) IN
             r.result = "Ok" =>
                /\ player = g.player1 =>
                      /\ r.game.p1_kept = (IF c = 0 THEN g.p1_left ELSE g.p1_right)
                      /\ is_some(r.game.p1_kept)
                      /\ r.game.p2_kept = g.p2_kept
                /\ player = g.player2 =>
                      /\ r.game.p2_kept = (IF c = 0 THEN g.p2_left ELSE g.p2_right)
                      /\ is_some(r.game.p2_kept)
                      /\ r.game.p1_kept = g.p1_kept

\* C10 witness: player 1 holds hands (0, 1), player 2 holds (2, 1), and
\* player 1 has just kept its right hand while player 2 has kept nothing.
C10_Witness ==
    \E s \in SessionIds :
       /\ Live(s) /\ G(s).phase = 4
       /\ G(s).p1_left = Some(0) /\ G(s).p1_right = Some(1)
       /\ G(s).p2_left = Some(2)
       /\ G(s).p1_kept = Some(1) /\ ~is_some(G(s).p2_kept)
       /\ last.op = "reveal_choice" /\ last.result = "Ok"

AllOps == PlayerOps \cup {"get_game"}

\* C11: for a session identifier with no stored record, commit_hands,
\* reveal_hands, commit_choice, reveal_choice and get_game fail with
\* GameNotFound for every caller and every payload, and a call that has
\* failed with GameNotFound has created no record.
C11_UnknownSession ==
    /\ \A s \in SessionIds : ~Live(s) =>
          /\ get_game(storage[s]).result = "GameNotFound"
          /\ \A player \in Addresses :
                /\ \A h \in HandsHashes :
                      commit_hands(storage[s], player, h).result = "GameNotFound"
                /\ \A l \in Hands, r \in Hands, salt \in Salts :
                      reveal_hands(storage[s], player, l, r, salt).result
                         = "GameNotFound"
                /\ \A h \in ChoiceHashes :
                      commit_choice(storage[s], player, h).result = "GameNotFound"
                /\ \A c \in Choices, salt \in Salts :
                      reveal_choice(storage[s], s, player, c, salt).result
                         = "GameNotFound"
    /\ (last.op \in AllOps /\ last.result = "GameNotFound") =>
          ~Live(last.session_id)
    /\ (last.op \in AllOps /\ last.result # "GameNotFound"
          /\ last.result # "AuthFailed") => Live(last.session_id)

\* C11 witness: a reveal_choice call on a session identifier that was never
\* started has just failed with GameNotFound, and there is still no record.
C11_Witness ==
    \E s \in SessionIds :
       /\ ~Live(s)
       /\ last.op = "reveal_choice" /\ last.session_id = s
       /\ last.result = "GameNotFound"

\* C12 as stated: on an existing session, a call of any of the four
\* per-phase entry points by an identity that is neither player yields
\* NotPlayer in whatever phase and with whatever payload.
C12_AlwaysNotPlayer ==
    \A s \in SessionIds : Live(s) =>
       \A player \in Addresses : ~IsPlayer(G(s), player) =>
          /\ \A h \in HandsHashes :
                commit_hands(storage[s], player, h).result = "NotPlayer"
          /\ \A l \in Hands, r \in Hands, salt \in Salts :
                reveal_hands(storage[s], player, l, r, salt).result = "NotPlayer"
          /\ \A h \in ChoiceHashes :
                commit_choice(storage[s], player, h).result = "NotPlayer"
          /\ \A c \in Choices, salt \in Salts :
                reveal_choice(storage[s], s, player, c, salt).result = "NotPlayer"

\* C12 amended: such a call always fails and leaves the record unchanged;
\* the error is NotPlayer when the session is in the operation's own phase
\* and, for the reveal operations, the payload passes validation (both
\* hands in 0..2 and different; index 0 or 1); in another phase it is
\* WrongPhase, and with an invalid payload InvalidHand, HandsMustDiffer or
\* InvalidChoice.
C12_OutsiderRejected ==
    /\ [](\A s \in SessionIds : Live(s) =>
          \A player \in Addresses : ~IsPlayer(G(s), player) =>
             /\ \A h \in HandsHashes :
                   commit_hands(storage[s], player, h).result =
                      (IF G(s).phase # 1 THEN "WrongPhase" ELSE "NotPlayer")
             /\ \A l \in Hands, r \in Hands, salt \in Salts :
                   reveal_hands(storage[s], player, l, r, salt).result =
                      (IF G(s).phase # 2 THEN "WrongPhase"
                       ELSE IF l > 2 \/ r > 2 THEN "InvalidHand"
                       ELSE IF l = r THEN "HandsMustDiffer"
                       ELSE "NotPlayer")
             /\ \A h \in ChoiceHashes :
                   commit_choice(storage[s], player, h).result =
                      (IF G(s).phase # 3 THEN "WrongPhase" ELSE "NotPlayer")
             /\ \A c \in Choices, salt \in Salts :
                   reveal_choice(storage[s], s, player, c, salt).result =
                      (IF G(s).phase # 4 THEN "WrongPhase"
                       ELSE IF c > 1 THEN "InvalidChoice"
                       ELSE "NotPlayer"))
    /\ [][Rejected(PlayerOps, {"NotPlayer"})]_vars

\* C12 witness: in RevealChoice, with one kept value stored, a reveal_choice
\* call has just failed with NotPlayer.
C12_Witness ==
    \E s \in SessionIds :
       /\ Live(s) /\ G(s).phase = 4
       /\ is_some(G(s).p2_kept)
       /\ last.op = "reveal_choice" /\ last.result = "NotPlayer"

\* C13: commit_hands succeeds only in phase 1, reveal_hands only in phase
\* 2, commit_choice only in phase 3 and reveal_choice only in phase 4; on
\* an existing session in any other phase each fails with WrongPhase, for
\* every caller and payload, and leaves the record unchanged.
C13_PhaseEnforcement ==
    /\ [](\A s \in SessionIds : Live(s) =>
          \A player \in Addresses :
             /\ \A h \in HandsHashes :
                   LET res == commit_hands(storage[s], player, h).result IN
                   /\ G(s).phase # 1 => res = "WrongPhase"
                   /\ G(s).phase = 1 => res # "WrongPhase"
             /\ \A l \in Hands, r \in Hands, salt \in Salts :
                   LET res == reveal_hands(storage[s], player, l, r, salt).result IN
                   /\ G(s).phase # 2 => res = "WrongPhase"
                   /\ G(s).phase = 2 => res # "WrongPhase"
             /\ \A h \in ChoiceHashes :
                   LET res == commit_choice(storage[s], player, h).result IN
                   /\ G(s).phase # 3 => res = "WrongPhase"
                   /\ G(s).phase = 3 => res # "WrongPhase"
             /\ \A c \in Choices, salt \in Salts :
                   LET res == reveal_choice(storage[s], s, player, c, salt).result IN
                   /\ G(s).phase # 4 => res = "WrongPhase"
                   /\ G(s).phase = 4 => res # "WrongPhase")
    /\ [][Rejected(PlayerOps, {"WrongPhase"})]_vars

\* C13 witness: in CommitChoice a reveal_hands call has just failed with
\* WrongPhase.
C13_Witness ==
    \E s \in SessionIds :
       /\ Live(s) /\ G(s).phase = 3
       /\ last.op = "reveal_hands" /\ last.result = "WrongPhase"

Errors == {"GameNotFound", "NotPlayer", "WrongPhase", "AlreadyCommitted",
           "InvalidHand", "HandsMustDiffer", "HashMismatch", "InvalidChoice"}

\* C14: a call of commit_hands, reveal_hands, commit_choice or
\* reveal_choice that returns an error, or that aborts because the caller's
\* authentication fails, leaves every stored record as it was and makes no
\* hub call; and these entry points end in Ok, in one of the eight errors
\* or in the authentication abort, never in a panic.
C14_NoPartialCommit ==
    /\ [][ (last'.op \in PlayerOps /\ last'.result # "Ok") =>
              (storage' = storage /\ hub' = hub) ]_vars
    /\ [](last.op \in PlayerOps =>
             last.result \in Errors \cup {"Ok", "AuthFailed"})

\* C14 witness: in RevealChoice, before any end_game report, a
\* reveal_choice call has just failed with HashMismatch.
C14_Witness ==
    \E s \in SessionIds :
       /\ Live(s) /\ G(s).phase = 4
       /\ hub[s].end_games = 0
       /\ last.op = "reveal_choice" /\ last.result = "HashMismatch"

\* C15: Complete is terminal: once a session's phase is 5 its record
\* never changes again, whatever call follows.
C15_CompleteTerminal ==
    [][ \A s \in SessionIds :
          (Live(s) /\ G(s).phase = 5) => storage'[s] = storage[s] ]_vars

\* C15, the part that holds: in Complete every call of the four per-phase
\* entry points is rejected and leaves the record as it is.
C15_CompleteRejectsPlayerOps ==
    /\ [](\A s \in SessionIds : (Live(s) /\ G(s).phase = 5) =>
          \A player \in Addresses :
             /\ \A h \in HandsHashes :
                   commit_hands(storage[s], player, h).result = "WrongPhase"
             /\ \A l \in Hands, r \in Hands, salt \in Salts :
                   reveal_hands(storage[s], player, l, r, salt).result = "WrongPhase"
             /\ \A h \in ChoiceHashes :
                   commit_choice(storage[s], player, h).result = "WrongPhase"
             /\ \A c \in Choices, salt \in Salts :
                   reveal_choice(storage[s], s, player, c, salt).result = "WrongPhase")
    /\ [][ last'.op \in PlayerOps =>
             \A s \in SessionIds :
                (Live(s) /\ G(s).phase = 5) => storage'[s] = storage[s] ]_vars

\* C16: a start_game call for a session identifier that already has a
\* stored record does not replace or reset that record.
C16_StartKeepsRecord ==
    [][ \A s \in SessionIds :
          (Live(s) /\ last'.op = "start_game" /\ last'.session_id = s) =>
             storage'[s] = storage[s] ]_vars

\* C17: for each session identifier end_game is invoked at most once, a
\* Complete record has had its end_game call, and the reported player1_won
\* is true iff the stored winner is player 1.
C17_EndGameExactlyOnce ==
    \A s \in SessionIds :
       /\ hub[s].end_games <= 1
       /\ (Live(s) /\ G(s).phase = 5) =>
             /\ hub[s].end_games = 1
             /\ hub[s].player1_won = Some(G(s).winner = Some(G(s).player1))

\* C17, the part that holds: end_game is invoked in exactly the steps in
\* which a reveal_choice call moves the phase from RevealChoice to Complete
\* and sets the winner, and it reports player1_won = (winner = player 1).
C17_EndGameAtCompletion ==
    [][ \A s \in SessionIds :
          LET completes == /\ Live(s) /\ G(s).phase = 4
                           /\ unwrap(storage'[s]).phase = 5
              winner_set == /\ is_some(storage'[s])
                            /\ is_some(unwrap(storage'[s]).winner)
                            /\ ~(Live(s) /\ is_some(G(s).winner)) IN
          /\ (hub'[s].end_games # hub[s].end_games) <=> completes
          /\ winner_set <=> completes
          /\ completes =>
                /\ last'.op = "reveal_choice" /\ last'.result = "Ok"
                /\ hub'[s].end_games = hub[s].end_games + 1
                /\ hub'[s].player1_won =
                      Some(unwrap(storage'[s]).winner
                              = Some(unwrap(storage'[s]).player1)) ]_vars

\* `player` has not made its submission for phase k in record g
Pending(g, player, k) ==
    CASE k = 1 -> ~is_some(HandsCommitOf(g, player))
      [] k = 2 -> ~is_some(LeftOf(g, player))
      [] k = 3 -> ~is_some(ChoiceCommitOf(g, player))
      [] k = 4 -> ~is_some(KeptOf(g, player))
      [] OTHER -> FALSE

\* the step is an accepted phase-k submission of `player` on session s
Submits(s, player, k) ==
    /\ last'.op \in PlayerOps /\ last'.session_id = s /\ last'.result = "Ok"
    /\ ~Pending(unwrap(storage'[s]), player, k)

\* C19: there is no forfeiture path: while a player of a session in phase
\* k (1..4) has not made its phase-k submission, no call that is not that
\* submission moves the session out of phase k.
C19_NoForfeit ==
    [][ \A s \in SessionIds, player \in Addresses :
          (/\ Live(s) /\ IsPlayer(G(s), player)
           /\ Pending(G(s), player, G(s).phase)
           /\ ~Submits(s, player, G(s).phase)) =>
             unwrap(storage'[s]).phase = G(s).phase ]_vars

\* C19, the part that holds: no call of the four per-phase entry points
\* moves a session out of phase k while one of its players has not made
\* its phase-k submission, so no single party advances a phase alone.
C19_NoForfeitUnderPlayerOps ==
    [][ last'.op \in PlayerOps =>
          \A s \in SessionIds, player \in Addresses :
             (/\ Live(s) /\ IsPlayer(G(s), player)
              /\ Pending(G(s), player, G(s).phase)
              /\ ~Submits(s, player, G(s).phase)) =>
                unwrap(storage'[s]).phase = G(s).phase ]_vars

\* stakes a caller may pass to start_game
Stakes == {100, 250}

\* the record of a session that has just been started
Fresh(player1, player2, player1_points, player2_points) ==
    [ player1 |-> player1, player2 |-> player2,
      player1_points |-> player1_points, player2_points |-> player2_points,
      phase |-> 1,
      p1_commit |-> None, p2_commit |-> None,
      p1_left |-> None, p1_right |-> None, p2_left |-> None, p2_right |-> None,
      p1_choice_commit |-> None, p2_choice_commit |-> None,
      p1_kept |-> None, p2_kept |-> None, winner |-> None ]

\* C20: start_game with player1 = player2 aborts and stores nothing; an
\* accepted start_game stores a record in phase 1 with the given players
\* and stakes and every commitment, revealed hand, kept hand and the winner
\* unset; in every stored record player1 and player2 differ.
C20_StartGame ==
    /\ [](\A s \in SessionIds :
            /\ \A p1 \in Addresses, p2 \in Addresses, a \in Stakes, b \in Stakes :
                  LET r == start_game(s, p1, p2, a, b) IN
                  IF p1 = p2
                  THEN r.result = "Panic" /\ r.game = None /\ r.calls = <<>>
                  ELSE r.result = "Ok" /\ r.game = Fresh(p1, p2, a, b)
            /\ Live(s) => G(s).player1 # G(s).player2
            /\ (last.op = "start_game" /\ last.session_id = s
                  /\ last.result = "Ok") =>
                  /\ Live(s)
                  /\ is_some(hub[s].registered)
                  /\ LET c == unwrap(hub[s].registered) IN
                     G(s) = Fresh(c.player1, c.player2,
                                  c.player1_points, c.player2_points))
    /\ [][ /\ last'.op = "start_game" => last'.result \in {"Ok", "Panic"}
           /\ Rejected({"start_game"}, {"Panic"}) ]_vars

\* a start_game with player1 = player2 on a session identifier without a
\* record has just aborted, and there is still no record
C20_Witness ==
    \E s \in SessionIds :
       /\ ~Live(s)
       /\ last = [op |-> "start_game", session_id |-> s, result |-> "Panic"]

----------------------------------------------------------------------------
(* Two sessions side by side: the same entry points over two session      *)
(* identifiers, with one value of each payload.                            *)

TwoSessions == {1, 2}
OneHandsHash == {hash_hands(0, 1, Salt(42))}
OneChoiceHash == {hash_choice(0, Salt(42))}

InitTwo ==
    /\ storage = [s \in TwoSessions |-> None]
    /\ hub = [s \in TwoSessions |->
                [start_games |-> 0, end_games |-> 0,
                 registered |-> None, player1_won |-> None]]
    /\ last = [op |-> "__constructor", session_id |-> 0, result |-> "Ok"]

NextTwo ==
    \/ \E s \in TwoSessions, pts \in Points :
          StartGame(s, "alice", "bob", pts, pts)
    \/ \E s \in TwoSessions, player \in Players, h \in OneHandsHash :
          CommitHands(s, player, h)
    \/ \E s \in TwoSessions, player \in Players :
          RevealHands(s, player, 0, 1, Salt(42))
    \/ \E s \in TwoSessions, player \in Players, h \in OneChoiceHash :
          CommitChoice(s, player, h)
    \/ \E s \in TwoSessions, player \in Players, c \in {0, 1} :
          RevealChoice(s, player, c, Salt(42))

SpecTwo == InitTwo /\ [][NextTwo]_vars

\* the records a call of `op` can leave under the key of a session whose
\* stored value is `stored`: a function of that value and the call alone
Outcomes(op, stored, session_id) ==
    LET results ==
          CASE op = "commit_hands" ->
                 { commit_hands(stored, player, h) :
                      player \in Players, h \in OneHandsHash }
            [] op = "reveal_hands" ->
                 { reveal_hands(stored, player, 0, 1, Salt(42)) : player \in Players }
            [] op = "commit_choice" ->
                 { commit_choice(stored, player, h) :
                      player \in Players, h \in OneChoiceHash }
            [] op = "reveal_choice" ->
                 { reveal_choice(stored, session_id, player, c, Salt(42)) :
                      player \in Players, c \in {0, 1} } IN
    {stored} \cup { Some(r.game) : r \in { x \in results : x.result = "Ok" } }

\* C18: a call of commit_hands, reveal_hands, commit_choice or
\* reveal_choice on session s, accepted or rejected, leaves the record and
\* the hub calls of every other session as they were, and what it leaves
\* under s is determined by the record of s and the call, so that the
\* records do not depend on how the calls to two sessions are interleaved.
C18_SessionIndependence ==
    [][ last'.op \in PlayerOps =>
          /\ \A s \in TwoSessions : s # last'.session_id =>
                (storage'[s] = storage[s] /\ hub'[s] = hub[s])
          /\ storage'[last'.session_id] \in
                Outcomes(last'.op, storage[last'.session_id], last'.session_id) ]_vars

\* a reveal_choice call has just completed session 1 while session 2 waits
\* in RevealHands
C18_Witness ==
    /\ Live(1) /\ Live(2)
    /\ G(1).phase = 5 /\ G(2).phase = 2
    /\ last = [op |-> "reveal_choice", session_id |-> 1, result |-> "Ok"]

----------------------------------------------------------------------------

RightOf(g, player) == IF player = g.player1 THEN g.p1_right ELSE g.p2_right

\* C21: honest round trip: in RevealHands a player that has not revealed
\* and whose stored commitment is hash_hands(left, right, salt) with
\* left # right in {0,1,2} succeeds with reveal_hands(left, right, salt) and
\* gets exactly (left, right) stored; in RevealChoice a player that has not
\* revealed and whose stored commitment is hash_choice(index, salt) with
\* index in {0,1} succeeds with reveal_choice(index, salt).
C21_HonestRoundTrip ==
    \A s \in SessionIds : Live(s) =>
       \A player \in Addresses : IsPlayer(G(s), player) =>
          /\ (G(s).phase = 2 /\ ~is_some(LeftOf(G(s), player))) =>
                \A l \in 0..2, r \in 0..2, salt \in Salts :
                   (l # r /\ HandsCommitOf(G(s), player)
                                = Some(hash_hands(l, r, salt))) =>
                      LET res == reveal_hands(storage[s], player, l, r, salt) IN
                      /\ res.result = "Ok"
                      /\ LeftOf(res.game, player) = Some(l)
                      /\ RightOf(res.game, player) = Some(r)
          /\ (G(s).phase = 4 /\ ~is_some(KeptOf(G(s), player))) =>
                \A i \in {0, 1}, salt \in Salts :
                   ChoiceCommitOf(G(s), player) = Some(hash_choice(i, salt)) =>
                      LET res == reveal_choice(storage[s], s, player, i, salt) IN
                      /\ res.result = "Ok"
                      /\ is_some(KeptOf(res.game, player))

\* player 1 committed hash_hands(2, 1, salt) and revealed (2, 1), then
\* committed a choice and has just revealed it while player 2 has not
C21_Witness ==
    \E s \in SessionIds :
       /\ Live(s) /\ G(s).phase = 4
       /\ G(s).p1_commit = Some(hash_hands(2, 1, Salt(42)))
       /\ G(s).p1_left = Some(2) /\ G(s).p1_right = Some(1)
       /\ G(s).p1_choice_commit = Some(hash_choice(1, Salt(42)))
       /\ G(s).p1_kept = Some(1) /\ ~is_some(G(s).p2_kept)
       /\ last = [op |-> "reveal_choice", session_id |-> s, result |-> "Ok"]

\* player 1 has copied every submission player 2 has made so far
Copied(g) ==
    /\ is_some(g.p1_commit) => g.p1_commit = g.p2_commit
    /\ is_some(g.p1_left) => (g.p1_left = g.p2_left /\ g.p1_right = g.p2_right)
    /\ is_some(g.p1_choice_commit) => g.p1_choice_commit = g.p2_choice_commit
    /\ is_some(g.p1_kept) => g.p1_kept = g.p2_kept

\* C22: commitments are bound neither to the committer nor to the session:
\* whenever player 2 has acted first in a phase and player 1 has so far
\* only copied it, player 1's call repeating player 2's hash (commit
\* rounds) or player 2's revealed values and salt (reveal rounds) is
\* accepted and keeps the copy; the last one completes the session with
\* p1_kept = p2_kept and winner = player 1.
C22_CopyAttack ==
    \A s \in SessionIds : (Live(s) /\ Copied(G(s))) =>
       LET g == G(s) IN
       /\ (g.phase = 1 /\ is_some(g.p2_commit) /\ ~is_some(g.p1_commit)) =>
             LET res == commit_hands(storage[s], g.player1, unwrap(g.p2_commit)) IN
             res.result = "Ok" /\ res.game.phase = 2 /\ Copied(res.game)
       /\ (g.phase = 2 /\ is_some(g.p2_left) /\ ~is_some(g.p1_left)) =>
             \A salt \in Salts :
                hash_hands(unwrap(g.p2_left), unwrap(g.p2_right), salt)
                   = unwrap(g.p2_commit) =>
                   LET res == reveal_hands(storage[s], g.player1, unwrap(g.p2_left),
                                           unwrap(g.p2_right), salt) IN
                   /\ res.result = "Ok" /\ res.game.phase = 3 /\ Copied(res.game)
                   /\ res.game.p1_left = g.p2_left /\ res.game.p1_right = g.p2_right
       /\ (g.phase = 3 /\ is_some(g.p2_choice_commit)
             /\ ~is_some(g.p1_choice_commit)) =>
             LET res == commit_choice(storage[s], g.player1,
                                      unwrap(g.p2_choice_commit)) IN
             res.result = "Ok" /\ res.game.phase = 4 /\ Copied(res.game)
       /\ (g.phase = 4 /\ is_some(g.p2_kept) /\ ~is_some(g.p1_kept)) =>
             \A i \in {0, 1}, salt \in Salts :
                (/\ hash_choice(i, salt) = unwrap(g.p2_choice_commit)
                 /\ g.p2_kept = kept_hand(i, g.p2_left, g.p2_right)) =>
                   LET res == reveal_choice(storage[s], s, g.player1, i, salt) IN
                   /\ res.result = "Ok" /\ res.game.phase = 5
                   /\ res.game.p1_kept = g.p2_kept
                   /\ res.game.winner = Some(g.player1)
       /\ g.phase = 5 => (g.p1_kept = g.p2_kept /\ g.winner = Some(g.player1))

\* a session that player 1 completed by copying player 2 in every round
C22_Witness ==
    \E s \in SessionIds :
       /\ Live(s) /\ G(s).phase = 5
       /\ G(s).p1_commit = G(s).p2_commit
       /\ G(s).p1_choice_commit = G(s).p2_choice_commit
       /\ G(s).p1_left = G(s).p2_left /\ G(s).p1_right = G(s).p2_right
       /\ G(s).p1_kept = G(s).p2_kept
       /\ G(s).winner = Some(G(s).player1)
       /\ last = [op |-> "reveal_choice", session_id |-> s, result |-> "Ok"]

\* the salt bytes of a digest's preimage after n value bytes
SaltOf(commit, n) == SubSeq(commit.keccak256, n + 1, Len(commit.keccak256))

\* `commit` is hash_hands of two different hands in {0,1,2} and some salt
HandsOpenable(commit) ==
    \E l \in 0..2, r \in 0..2 :
       l # r /\ hash_hands(l, r, SaltOf(commit, 2)) = commit

\* `commit` is hash_choice of index 0 or 1 and some salt
ChoiceOpenable(commit) ==
    \E i \in {0, 1} : hash_choice(i, SaltOf(commit, 1)) = commit

\* a player of g has stored a hands commitment that cannot be opened
HandsStuck(g) ==
    \/ is_some(g.p1_commit) /\ ~HandsOpenable(unwrap(g.p1_commit))
    \/ is_some(g.p2_commit) /\ ~HandsOpenable(unwrap(g.p2_commit))

\* a player of g has stored a choice commitment that cannot be opened
ChoiceStuck(g) ==
    \/ is_some(g.p1_choice_commit) /\ ~ChoiceOpenable(unwrap(g.p1_choice_commit))
    \/ is_some(g.p2_choice_commit) /\ ~ChoiceOpenable(unwrap(g.p2_choice_commit))

\* a player whose stored commitment cannot be opened has no reveal that
\* succeeds, the session is not past RevealHands (hands) or RevealChoice
\* (choice) and has no winner
UnopenableBlocked(s) ==
    LET g == G(s) IN
    /\ HandsStuck(g) => g.phase <= 2
    /\ ChoiceStuck(g) => (g.phase \in {3, 4} /\ ~is_some(g.winner))
    /\ \A player \in Addresses : IsPlayer(g, player) =>
          /\ (is_some(HandsCommitOf(g, player))
                /\ ~HandsOpenable(unwrap(HandsCommitOf(g, player)))) =>
                \A l \in Hands, r \in Hands, salt \in Salts :
                   reveal_hands(storage[s], player, l, r, salt).result # "Ok"
          /\ (is_some(ChoiceCommitOf(g, player))
                /\ ~ChoiceOpenable(unwrap(ChoiceCommitOf(g, player)))) =>
                \A c \in Choices, salt \in Salts :
                   reveal_choice(storage[s], s, player, c, salt).result # "Ok"

\* the session stays as it is blocked: it keeps the unopenable commitment,
\* and with it stays short of DecidingChoice, resp. in RevealChoice
StaysBlocked(s) ==
    LET g == G(s)
        h == unwrap(storage'[s]) IN
    /\ HandsStuck(g) => (HandsStuck(h) /\ h.phase <= 2)
    /\ (ChoiceStuck(g) /\ g.phase = 4) =>
          (ChoiceStuck(h) /\ h.phase = 4 /\ ~is_some(h.winner))

\* C23: a stored hands commitment that is not hash_hands of two different
\* hands in {0,1,2} can never be revealed and the session never reaches
\* phase 3; a stored choice commitment that is not hash_choice of index 0
\* or 1 keeps the session in phase 4 forever with no winner.
C23_UnopenableBlocks ==
    /\ [](\A s \in SessionIds : Live(s) => UnopenableBlocked(s))
    /\ [][ \A s \in SessionIds : Live(s) => StaysBlocked(s) ]_vars

\* C23, the part that holds: no call of the four per-phase entry points
\* gets a session out of the blocked state.
C23_UnopenableBlocksPlayerOps ==
    /\ [](\A s \in SessionIds : Live(s) => UnopenableBlocked(s))
    /\ [][ last'.op \in PlayerOps =>
             \A s \in SessionIds : Live(s) => StaysBlocked(s) ]_vars

\* C24: for each party left and right are both unset or both set; when
\* set both are in {0,1,2} and differ; a stored kept value is in {0,1,2}.
\* In RevealHands a reveal_hands with left > 2 or right > 2 fails with
\* InvalidHand and in RevealChoice a reveal_choice with index > 1 fails
\* with InvalidChoice, for every caller, also when the values hash to the
\* caller's stored commitment.
C24_RevealedDomain ==
    \A s \in SessionIds : Live(s) =>
       LET g == G(s) IN
       /\ \A player \in Addresses : IsPlayer(g, player) =>
             /\ is_some(LeftOf(g, player)) <=> is_some(RightOf(g, player))
             /\ is_some(LeftOf(g, player)) =>
                   /\ unwrap(LeftOf(g, player)) \in 0..2
                   /\ unwrap(RightOf(g, player)) \in 0..2
                   /\ unwrap(LeftOf(g, player)) # unwrap(RightOf(g, player))
             /\ is_some(KeptOf(g, player)) => unwrap(KeptOf(g, player)) \in 0..2
       /\ g.phase = 2 =>
             \A player \in Addresses, l \in Hands, r \in Hands, salt \in Salts :
                (l > 2 \/ r > 2) =>
                   reveal_hands(storage[s], player, l, r, salt).result = "InvalidHand"
       /\ g.phase = 4 =>
             \A player \in Addresses, c \in Choices, salt \in Salts :
                c > 1 =>
                   reveal_choice(storage[s], s, player, c, salt).result
                      = "InvalidChoice"

\* in RevealHands a player who committed hash_hands(3, 1, salt) has just
\* been refused with InvalidHand and has no hands stored
C24_Witness ==
    \E s \in SessionIds, player \in Players :
       /\ Live(s) /\ G(s).phase = 2 /\ IsPlayer(G(s), player)
       /\ HandsCommitOf(G(s), player) = Some(hash_hands(3, 1, Salt(42)))
       /\ ~is_some(LeftOf(G(s), player))
       /\ ~is_some(RightOf(G(s), player))
       /\ last = [op |-> "reveal_hands", session_id |-> s, result |-> "InvalidHand"]

\* the fields of record g that a successful call of `op` by `player` may
\* write, phase and winner apart
OwnFields(op, g, player) ==
    LET n == IF player = g.player1 THEN "p1" ELSE "p2" IN
    CASE op = "commit_hands" -> {n \o "_commit"}
      [] op = "reveal_hands" -> {n \o "_left", n \o "_right"}
      [] op = "commit_choice" -> {n \o "_choice_commit"}
      [] op = "reveal_choice" -> {n \o "_kept"}

\* the record `h` left by a successful call of `op` by `player` on record g
\* differs from g in the caller's own fields of the phase at most, in phase,
\* and in winner only when the call completes the session
Frame(op, g, player, h) ==
    /\ \A f \in (DOMAIN g) \ (OwnFields(op, g, player) \cup {"phase", "winner"}) :
          h[f] = g[f]
    /\ h.winner # g.winner => (op = "reveal_choice" /\ g.phase = 4 /\ h.phase = 5)
    /\ \E f \in OwnFields(op, g, player) : h[f] # g[f]

\* C25: a successful commit_hands, reveal_hands, commit_choice or
\* reveal_choice by a party changes only that party's own field(s) of the
\* phase, possibly phase, and winner in the completing reveal_choice only;
\* the other party's fields, the players and the stakes stay as they were.
C25_SuccessFrame ==
    \A s \in SessionIds : Live(s) =>
       \A player \in Addresses :
          /\ \A hh \in HandsHashes :
                LET res == commit_hands(storage[s], player, hh) IN
                res.result = "Ok" => Frame("commit_hands", G(s), player, res.game)
          /\ \A l \in Hands, r \in Hands, salt \in Salts :
                LET res == reveal_hands(storage[s], player, l, r, salt) IN
                res.result = "Ok" => Frame("reveal_hands", G(s), player, res.game)
          /\ \A ch \in ChoiceHashes :
                LET res == commit_choice(storage[s], player, ch) IN
                res.result = "Ok" => Frame("commit_choice", G(s), player, res.game)
          /\ \A c \in Choices, salt \in Salts :
                LET res == reveal_choice(storage[s], s, player, c, salt) IN
                res.result = "Ok" => Frame("reveal_choice", G(s), player, res.game)

\* a reveal_choice call has just completed the session, player 2 winning
\* with 1 over 0
C25_Witness ==
    \E s \in SessionIds :
       /\ Live(s) /\ G(s).phase = 5
       /\ G(s).p1_kept = Some(0) /\ G(s).p2_kept = Some(1)
       /\ G(s).winner = Some(G(s).player2)
       /\ last = [op |-> "reveal_choice", session_id |-> s, result |-> "Ok"]

\* C26: no unwrap of an unset field is reachable: in RevealHands both
\* hands commitments are set, in RevealChoice both choice commitments and
\* all four hands are set, and no call of an entry point, by any caller
\* with any payload, aborts on an unset field.
C26_NoUnwrapOfNone ==
    /\ last.op \in AllOps => last.result # "Panic"
    /\ \A s \in SessionIds :
          /\ Live(s) =>
                LET g == G(s) IN
                /\ g.phase = 2 => (is_some(g.p1_commit) /\ is_some(g.p2_commit))
                /\ g.phase = 4 =>
                      /\ is_some(g.p1_choice_commit) /\ is_some(g.p2_choice_commit)
                      /\ is_some(g.p1_left) /\ is_some(g.p1_right)
                      /\ is_some(g.p2_left) /\ is_some(g.p2_right)
          /\ \A player \in Addresses :
                /\ \A hh \in HandsHashes :
                      commit_hands(storage[s], player, hh).result # "Panic"
                /\ \A l \in Hands, r \in Hands, salt \in Salts :
                      reveal_hands(storage[s], player, l, r, salt).result # "Panic"
                /\ \A ch \in ChoiceHashes :
                      commit_choice(storage[s], player, ch).result # "Panic"
                /\ \A c \in Choices, salt \in Salts :
                      reveal_choice(storage[s], s, player, c, salt).result # "Panic"
          /\ get_game(storage[s]).result # "Panic"

\* in RevealHands, with nothing revealed yet, a reveal_hands call has just
\* got past the unwrap of the caller's commitment and failed the comparison
C26_Witness ==
    \E s \in SessionIds :
       /\ Live(s) /\ G(s).phase = 2
       /\ ~is_some(G(s).p1_left) /\ ~is_some(G(s).p2_left)
       /\ last = [op |-> "reveal_hands", session_id |-> s, result |-> "HashMismatch"]

----------------------------------------------------------------------------
(* Two honest players: every accepted submission is a correct one (a hash  *)
(* that can be opened, then the values that open it), rejected calls of    *)
(* the players and of outsiders are interleaved, and each player's pending *)
(* correct submission is taken under weak fairness.                        *)

\* the accepted, correct submission of `player` that session s waits for
HonestSubmit(s, player) ==
    \/ \E h \in HandsHashes :
          /\ HandsOpenable(h)
          /\ CommitHands(s, player, h) /\ last'.result = "Ok"
    \/ \E l \in 0..2, r \in 0..2, salt \in Salts :
          RevealHands(s, player, l, r, salt) /\ last'.result = "Ok"
    \/ \E h \in ChoiceHashes :
          /\ ChoiceOpenable(h)
          /\ CommitChoice(s, player, h) /\ last'.result = "Ok"
    \/ \E c \in {0, 1}, salt \in Salts :
          RevealChoice(s, player, c, salt) /\ last'.result = "Ok"

\* a call of a per-phase entry point, by anyone, that is rejected
RejectedCall(s, player) ==
    \/ \E h \in HandsHashes :
          CommitHands(s, player, h) /\ last'.result # "Ok"
    \/ \E l \in Hands, r \in Hands :
          RevealHands(s, player, l, r, Salt(99)) /\ last'.result # "Ok"
    \/ \E h \in ChoiceHashes :
          CommitChoice(s, player, h) /\ last'.result # "Ok"
    \/ \E c \in Choices :
          RevealChoice(s, player, c, Salt(99)) /\ last'.result # "Ok"

NextHonest ==
    \/ \E s \in SessionIds, p1 \in Players, p2 \in Players, pts \in Points :
          StartGame(s, p1, p2, pts, pts)
    \/ \E s \in SessionIds, player \in Players : HonestSubmit(s, player)
    \/ \E s \in SessionIds, player \in Addresses : RejectedCall(s, player)

SpecHonest ==
    /\ Init /\ [][NextHonest]_vars
    /\ \A s \in SessionIds, player \in Players : WF_vars(HonestSubmit(s, player))

\* C27: with two honest players whose pending correct submissions are
\* taken under weak fairness, a started session eventually is Complete
\* with a winner, whoever acts first in each phase and whatever rejected
\* calls are interleaved.
C27_Progress ==
    \A s \in SessionIds :
       Live(s) ~> (Live(s) /\ G(s).phase = 5 /\ is_some(G(s).winner))

\* the honest players have completed the session, started once, and a
\* late commit_hands has just been rejected
C27_Witness ==
    \E s \in SessionIds :
       /\ Live(s) /\ G(s).phase = 5 /\ is_some(G(s).winner)
       /\ hub[s].start_games = 1 /\ hub[s].end_games = 1
       /\ last = [op |-> "commit_hands", session_id |-> s, result |-> "WrongPhase"]

----------------------------------------------------------------------------

\* the stored value after an invocation with result r
After(stored, r) == IF r.result = "Ok" THEN Some(r.game) ELSE stored

\* the two calls a1 (by player 1) and a2 (by player 2), each given as the
\* function from the stored value to the call's result, leave the same
\* record, get the same results and make the same hub calls in both orders
SameInBothOrders(stored, a1(_), a2(_)) ==
    LET first1 == a1(stored)
        then2 == a2(After(stored, first1))
        first2 == a2(stored)
        then1 == a1(After(stored, first2)) IN
    /\ After(After(stored, first1), then2) = After(After(stored, first2), then1)
    /\ first1.result = then1.result
    /\ first2.result = then2.result
    /\ first1.calls \o then2.calls = first2.calls \o then1.calls

\* C28: order independence within a phase: from a record in which neither
\* player has made the phase's submission, fixed submissions of the two
\* players leave the same record (commitments, hands, kept values, winner,
\* phase) whether player 1 or player 2 submits first; this holds at the
\* start of each of the four phases, hence for the final record.  The
\* submissions range over every hash callers commit and every hand in
\* {0,1,2}, index in {0,1} and salt, matching the commitment or not.
C28_OrderIndependence ==
    \A s \in SessionIds : Live(s) =>
       LET g == G(s)
           st == storage[s] IN
       /\ (g.phase = 1 /\ ~is_some(g.p1_commit) /\ ~is_some(g.p2_commit)) =>
             \A h1 \in HandsHashes, h2 \in HandsHashes :
                LET a1(x) == commit_hands(x, g.player1, h1)
                    a2(x) == commit_hands(x, g.player2, h2) IN
                SameInBothOrders(st, a1, a2)
       /\ (g.phase = 2 /\ ~is_some(g.p1_left) /\ ~is_some(g.p2_left)) =>
             \A l1 \in 0..2, r1 \in 0..2, salt1 \in Salts,
                l2 \in 0..2, r2 \in 0..2, salt2 \in Salts :
                LET a1(x) == reveal_hands(x, g.player1, l1, r1, salt1)
                    a2(x) == reveal_hands(x, g.player2, l2, r2, salt2) IN
                SameInBothOrders(st, a1, a2)
       /\ (g.phase = 3 /\ ~is_some(g.p1_choice_commit)
             /\ ~is_some(g.p2_choice_commit)) =>
             \A h1 \in ChoiceHashes, h2 \in ChoiceHashes :
                LET a1(x) == commit_choice(x, g.player1, h1)
                    a2(x) == commit_choice(x, g.player2, h2) IN
                SameInBothOrders(st, a1, a2)
       /\ (g.phase = 4 /\ ~is_some(g.p1_kept) /\ ~is_some(g.p2_kept)) =>
             \A c1 \in {0, 1}, salt1 \in Salts, c2 \in {0, 1}, salt2 \in Salts :
                LET a1(x) == reveal_choice(x, s, g.player1, c1, salt1)
                    a2(x) == reveal_choice(x, s, g.player2, c2, salt2) IN
                SameInBothOrders(st, a1, a2)

\* player 2 has just committed its choice before player 1
C28_Witness ==
    \E s \in SessionIds :
       /\ Live(s) /\ G(s).phase = 3
       /\ is_some(G(s).p2_choice_commit) /\ ~is_some(G(s).p1_choice_commit)
       /\ last = [op |-> "commit_choice", session_id |-> s, result |-> "Ok"]

====
